---- MODULE Spec2Model ----
(***************************************************************************)
(* Persistence and query engine of the monitoring server: the clients and  *)
(* client_history tables, the two-write ingest of storeMonitoringData run  *)
(* by the goroutine HandleMonitoringData detaches, the hourly              *)
(* cleanupRoutine, the history queries, the status view and the schema.    *)
(*                                                                         *)
(* Time is the wall clock in whole seconds, read alike by time.Now() and   *)
(* by datetime('now'); timestamps are compared as instants.  Every SQL     *)
(* statement is one atomic step of the store; the steps of concurrent      *)
(* calls interleave.  Spec is the concurrent ingest with the sweeper,      *)
(* SpecQuery the queries over stores filled by calls made one at a time,   *)
(* SpecStatus the status view over such stores, SpecSweeper the sweeper    *)
(* over several ticks, SpecDecode the queries over a database file that    *)
(* holds rows of another shape, SpecSchema initDatabase run again and      *)
(* again, SpecCrash the concurrent ingest with the process dying and       *)
(* starting again, SpecRace the concurrent ingest with time.Now() read as  *)
(* an argument in a step of its own, before the statement is applied.  A   *)
(* query that fails as a whole returns its error and nothing else;         *)
(* calculateSuccessRate and getLastError, which return a value instead,    *)
(* have a step for the failing query.                                      *)
(***************************************************************************)
EXTENDS Integers, Sequences, FiniteSets, TLC

VARIABLES now, tickPending, clients, client_history, nextId, calls,
          started, ingested, last, schema, sweeper

vars == <<now, tickPending, clients, client_history, nextId, calls,
          started, ingested, last, schema, sweeper>>

(* ---- bounds of the model ------------------------------------------------ *)
MaxCalls   == 2      \* storage goroutines that can be in flight together
MaxReports == 2      \* reports posted in one behaviour
MaxRows    == 3      \* reports stored one after the other for the queries

(* ---- program constants -------------------------------------------------- *)
RetentionSecs == 604800   \* datetime('now', '-7 days')
SweepInterval == 3600     \* time.NewTicker(1 * time.Hour)

(* the seconds since start at which the clock is read: around the start   *)
(* and around seven days later for the sweeper, the start and a day and a  *)
(* second later for the windows of the queries                             *)
Instants == {0, 1, 604800, 604801}
QueryInstants == {0, 86401}

Slots == 1..MaxCalls

(* ---- reports ------------------------------------------------------------ *)
(* MonitoringData, reduced to the fields the store reads; the values are   *)
(* what the JSON decoder of the handler hands over.                        *)
Rep(c, u, l, s, e, t) ==
    [client_id |-> c, target_url |-> u, total_response_ms |-> l,
     status_code |-> s, has_error |-> e, error_type |-> t]

Reports ==
    { Rep("a", "u1", 100,  200, FALSE, ""),
      Rep("a", "u2", 1200, 500, TRUE,  "timeout"),
      Rep("a", "u1", 1000, 404, FALSE, "stale"),
      Rep("b", "u2", 500,  200, FALSE, "") }

ClientIDs == {r.client_id : r \in Reports}

(* the reports the concurrent calls carry: two of one client, one of another *)
IngestReports == {r \in Reports : r.status_code \in {200, 500}}

(* Marshal writing the total response time in whole seconds *)
Marshal_wholeSeconds(d) ==
    <<d.client_id, d.target_url, (d.total_response_ms \div 1000) * 1000,
      d.status_code, d.has_error, d.error_type>>

(* json.Marshal(data): the object text, held as the field values in struct *)
(* order.                                                                  *)
Marshal(d) ==
    <<d.client_id, d.target_url, d.total_response_ms, d.status_code,
      d.has_error, d.error_type>>

(* json.Unmarshal([]byte(dataStr), &data): fails on text that is not an    *)
(* object of the struct.                                                   *)
Unmarshal(s) ==
    IF Len(s) = 6
    THEN [ok |-> TRUE,
          data |-> Rep(s[1], s[2], s[3], s[4], s[5], s[6])]
    ELSE [ok |-> FALSE, data |-> <<>>]

(* ---- the store ---------------------------------------------------------- *)
(* a plain INSERT with no uniqueness enforced on id *)
InsertOrReplace_plainInsert(table, row) == table \cup {row}

(* INSERT OR REPLACE INTO clients: a row with the same primary key is      *)
(* deleted, then the new row is inserted.                                  *)
InsertOrReplace(table, row) ==
    {r \in table : r.id # row.id} \cup {row}

(* ClientRow with the first two parameters bound in the wrong order: the  *)
(* primary key takes the target URL                                        *)
ClientRow_urlAsId(d, jsonData, t) ==
    [id |-> d.target_url, name |-> d.client_id, target_url |-> d.target_url,
     last_seen |-> t, last_data |-> jsonData]

(* ClientRow with last_seen an hour ahead: the clock written as the local  *)
(* time of a zone east of the one it is read back in                       *)
ClientRow_zoneAhead(d, jsonData, t) ==
    [id |-> d.client_id, name |-> d.client_id, target_url |-> d.target_url,
     last_seen |-> t + 3600, last_data |-> jsonData]

(* the row built from the parameters of the first Exec *)
ClientRow(d, jsonData, t) ==
    [id |-> d.client_id, name |-> d.client_id, target_url |-> d.target_url,
     last_seen |-> t, last_data |-> jsonData]

(* HistoryRow with the error type of the report kept whatever hasError says *)
HistoryRow_typeKept(id, d, jsonData, t) ==
    [id |-> id, client_id |-> d.client_id, timestamp |-> t,
     success |-> ~d.has_error,
     latency |-> d.total_response_ms,
     status_code |-> d.status_code,
     error_type |-> d.error_type,
     data |-> jsonData]

(* HistoryRow with the parameters bound one place off: the timestamp       *)
(* column takes the latency                                                *)
HistoryRow_latencyAsTime(id, d, jsonData, t) ==
    [id |-> id, client_id |-> d.client_id,
     timestamp |-> d.total_response_ms,
     success |-> ~d.has_error,
     latency |-> d.total_response_ms,
     status_code |-> d.status_code,
     error_type |-> IF d.has_error THEN d.error_type ELSE "",
     data |-> jsonData]

(* HistoryRow with the data column left out of the INSERT: it stays NULL *)
HistoryRow_noPayload(id, d, jsonData, t) ==
    [id |-> id, client_id |-> d.client_id, timestamp |-> t,
     success |-> ~d.has_error,
     latency |-> d.total_response_ms,
     status_code |-> d.status_code,
     error_type |-> IF d.has_error THEN d.error_type ELSE "",
     data |-> <<>>]

(* HistoryRow with the timestamp cut to the hour *)
HistoryRow_hourly(id, d, jsonData, t) ==
    [id |-> id, client_id |-> d.client_id,
     timestamp |-> t - (t % 3600),
     success |-> ~d.has_error,
     latency |-> d.total_response_ms,
     status_code |-> d.status_code,
     error_type |-> IF d.has_error THEN d.error_type ELSE "",
     data |-> jsonData]

(* the row built from the parameters of the second Exec *)
HistoryRow(id, d, jsonData, t) ==
    [id |-> id, client_id |-> d.client_id, timestamp |-> t,
     success |-> ~d.has_error,
     latency |-> d.total_response_ms,
     status_code |-> d.status_code,
     error_type |-> IF d.has_error THEN d.error_type ELSE "",
     data |-> jsonData]

(* the comparison of the DELETE turned around *)
SweepDeletes_newer(row, t) == row.timestamp > t - RetentionSecs

(* DELETE FROM client_history WHERE timestamp < datetime('now', '-7 days') *)
SweepDeletes(row, t) == row.timestamp < t - RetentionSecs

(* the objects the schema text names, in the order of its statements *)
SchemaObjects ==
    <<"clients", "client_history", "idx_client_history_client_time">>

IdleCall == [pc |-> "idle"]

(* no report of the client has been written to clients yet *)
NoReport == [client_id |-> ""]

(* nothing to report: the last step was no query and no sweep *)
NoOp == [op |-> "none"]

Init ==
    /\ now = 0
    /\ tickPending = FALSE
    /\ clients = {}
    /\ client_history = {}
    /\ nextId = 1
    /\ calls = [p \in Slots |-> IdleCall]
    /\ started = 0
    /\ ingested = [c \in ClientIDs |-> NoReport]
    /\ last = NoOp
    /\ schema = SchemaObjects
    /\ sweeper = [pc |-> "waiting", failed |-> FALSE]

(* ---- clock -------------------------------------------------------------- *)
(* Time passes to instant t; the ticker of cleanupRoutine fires when an    *)
(* hour boundary since start is crossed (its channel holds one tick, more  *)
(* are dropped).                                                           *)
Tick(t) ==
    /\ t > now
    /\ now' = t
    /\ tickPending' = (tickPending \/ t \div SweepInterval > now \div SweepInterval)
    /\ last' = NoOp
    /\ UNCHANGED <<schema, sweeper, clients, client_history, nextId, calls, started, ingested>>

(* ---- ingest ------------------------------------------------------------- *)
(* goroutines are anonymous: a new one takes the lowest slot not running *)
FreeSlots == {q \in Slots : calls[q].pc \in {"idle", "done"}}
FreeSlot == IF FreeSlots = {} THEN 0
            ELSE CHOOSE q \in FreeSlots : \A q2 \in FreeSlots : q <= q2

(* the goroutine started with the response still to be written *)
HandleMonitoringData_storeFirst(p, r) ==
    /\ started < MaxReports
    /\ p = FreeSlot
    /\ calls' = [calls EXCEPT ![p] =
                    [pc |-> "upsert", data |-> r, jsonData |-> Marshal(r),
                     acked |-> FALSE]]
    /\ started' = started + 1
    /\ last' = NoOp
    /\ UNCHANGED <<schema, sweeper, now, tickPending, clients, client_history, nextId, ingested>>

(* HandleMonitoringData, POST with a decodable body: acknowledges, then    *)
(* starts the goroutine that calls storeMonitoringData(data).              *)
HandleMonitoringData(p, r) ==
    /\ started < MaxReports
    /\ p = FreeSlot
    /\ calls' = [calls EXCEPT ![p] =
                    [pc |-> "upsert", data |-> r, jsonData |-> Marshal(r),
                     acked |-> TRUE]]
    /\ started' = started + 1
    /\ last' = NoOp
    /\ UNCHANGED <<schema, sweeper, now, tickPending, clients, client_history, nextId, ingested>>

(* storeMonitoringData, first Exec succeeds *)
Upsert(p) ==
    /\ calls[p].pc = "upsert"
    /\ LET c == calls[p]
           row == ClientRow(c.data, c.jsonData, now)
       IN /\ clients' = InsertOrReplace(clients, row)
          /\ calls' = [calls EXCEPT ![p] =
                          [pc |-> "insert", data |-> c.data,
                           jsonData |-> c.jsonData, acked |-> c.acked,
                           last_seen |-> row.last_seen]]
          /\ ingested' = [ingested EXCEPT ![c.data.client_id] = c.data]
    /\ last' = NoOp
    /\ UNCHANGED <<schema, sweeper, now, tickPending, client_history, nextId, started>>

(* the failed upsert logged and the history row written all the same *)
UpsertFail_appends(p) ==
    /\ calls[p].pc = "upsert"
    /\ client_history' = client_history \cup
           {HistoryRow(nextId, calls[p].data, calls[p].jsonData, now)}
    /\ nextId' = nextId + 1
    /\ calls' = [calls EXCEPT ![p] =
                    [pc |-> "done", data |-> calls[p].data, err |-> TRUE,
                     acked |-> calls[p].acked,
                     upserted |-> FALSE, appended |-> TRUE]]
    /\ last' = NoOp
    /\ UNCHANGED <<schema, sweeper, now, tickPending, clients, started, ingested>>

(* storeMonitoringData, first Exec fails: the error is returned *)
UpsertFail(p) ==
    /\ calls[p].pc = "upsert"
    /\ calls' = [calls EXCEPT ![p] =
                    [pc |-> "done", data |-> calls[p].data, err |-> TRUE,
                     acked |-> calls[p].acked,
                     upserted |-> FALSE, appended |-> FALSE]]
    /\ last' = NoOp
    /\ UNCHANGED <<schema, sweeper, now, tickPending, clients, client_history, nextId, started, ingested>>

(* the entry written over the entries the client already has, as the       *)
(* upsert of clients does                                                  *)
Insert_replaces(p) ==
    /\ calls[p].pc = "insert"
    /\ LET c == calls[p]
           row == HistoryRow(nextId, c.data, c.jsonData, now)
       IN /\ client_history' =
                 {h \in client_history : h.client_id # row.client_id}
                 \cup {row}
          /\ calls' = [calls EXCEPT ![p] =
                          [pc |-> "done", data |-> c.data, err |-> FALSE,
                           acked |-> c.acked,
                           upserted |-> TRUE, appended |-> TRUE,
                           last_seen |-> c.last_seen,
                           hist_id |-> nextId, hist_timestamp |-> row.timestamp]]
    /\ nextId' = nextId + 1
    /\ last' = NoOp
    /\ UNCHANGED <<schema, sweeper, now, tickPending, clients, started, ingested>>

(* storeMonitoringData, second Exec succeeds *)
Insert(p) ==
    /\ calls[p].pc = "insert"
    /\ LET c == calls[p]
           row == HistoryRow(nextId, c.data, c.jsonData, now)
       IN /\ client_history' = client_history \cup {row}
          /\ calls' = [calls EXCEPT ![p] =
                          [pc |-> "done", data |-> c.data, err |-> FALSE,
                           acked |-> c.acked,
                           upserted |-> TRUE, appended |-> TRUE,
                           last_seen |-> c.last_seen,
                           hist_id |-> nextId, hist_timestamp |-> row.timestamp]]
    /\ nextId' = nextId + 1
    /\ last' = NoOp
    /\ UNCHANGED <<schema, sweeper, now, tickPending, clients, started, ingested>>

(* the failed append taking the row of the client back out of clients *)
InsertFail_rollsBack(p) ==
    /\ calls[p].pc = "insert"
    /\ clients' = {r \in clients : r.id # calls[p].data.client_id}
    /\ calls' = [calls EXCEPT ![p] =
                    [pc |-> "done", data |-> calls[p].data, err |-> TRUE,
                     acked |-> calls[p].acked,
                     upserted |-> TRUE, appended |-> FALSE,
                     last_seen |-> calls[p].last_seen]]
    /\ last' = NoOp
    /\ UNCHANGED <<schema, sweeper, now, tickPending, client_history, nextId, started, ingested>>

(* storeMonitoringData, second Exec fails: the error is returned *)
InsertFail(p) ==
    /\ calls[p].pc = "insert"
    /\ calls' = [calls EXCEPT ![p] =
                    [pc |-> "done", data |-> calls[p].data, err |-> TRUE,
                     acked |-> calls[p].acked,
                     upserted |-> TRUE, appended |-> FALSE,
                     last_seen |-> calls[p].last_seen]]
    /\ last' = NoOp
    /\ UNCHANGED <<schema, sweeper, now, tickPending, clients, client_history, nextId, started, ingested>>

(* ---- retention ---------------------------------------------------------- *)
(* cleanupRoutine, one pass of the loop body with the Exec succeeding *)
Cleanup ==
    /\ sweeper.pc = "waiting"
    /\ tickPending
    /\ tickPending' = FALSE
    /\ client_history' = {h \in client_history : ~SweepDeletes(h, now)}
    /\ last' = [op |-> "cleanup"]
    /\ UNCHANGED <<schema, sweeper, now, clients, nextId, calls, started, ingested>>

(* the loop left when the Exec fails *)
AfterSweepError_return == "returned"

(* where cleanupRoutine stands after log.Printf of the error: the body ends *)
(* and the loop receives from ticker.C again                                *)
AfterSweepError == "waiting"

(* cleanupRoutine, one pass of the loop body with the Exec failing: the    *)
(* error is logged                                                         *)
CleanupFail ==
    /\ sweeper.pc = "waiting"
    /\ tickPending
    /\ tickPending' = FALSE
    /\ sweeper' = [pc |-> AfterSweepError, failed |-> TRUE]
    /\ last' = NoOp
    /\ UNCHANGED <<schema, now, clients, client_history, nextId, calls, started, ingested>>

(* storeMonitoringData run to its end with nothing in between: both Execs  *)
(* succeed and read the same second of the clock.                          *)
StoreMonitoringData(r) ==
    /\ started < MaxRows
    /\ \A q \in Slots : calls[q].pc \in {"idle", "done"}
    /\ LET jsonData == Marshal(r)
           crow == ClientRow(r, jsonData, now)
           hrow == HistoryRow(nextId, r, jsonData, now)
       IN /\ clients' = InsertOrReplace(clients, crow)
          /\ client_history' = client_history \cup {hrow}
          /\ calls' = [calls EXCEPT ![1] =
                          [pc |-> "done", data |-> r, err |-> FALSE,
                           upserted |-> TRUE, appended |-> TRUE,
                           last_seen |-> crow.last_seen,
                           hist_id |-> nextId, hist_timestamp |-> hrow.timestamp]]
          /\ ingested' = [ingested EXCEPT ![r.client_id] = r]
    /\ nextId' = nextId + 1
    /\ started' = started + 1
    /\ last' = NoOp
    /\ UNCHANGED <<schema, sweeper, now, tickPending>>

(* ---- queries ------------------------------------------------------------ *)
(* last holds the answer of the query that has just returned; it is read   *)
(* before the next query is asked, and any other step drops it             *)
Answering == last.op \in {"getClientHistory", "getFilteredClientHistory",
                          "getAnomalies"}

Min(a, b) == IF a < b THEN a ELSE b

(* BINARY collation of the TEXT values the store holds *)
Collation == <<"", "stale", "timeout">>
TextRank(t) == CHOOSE i \in 1..Len(Collation) : Collation[i] = t

(* the value a row is ordered by under ORDER BY <column> *)
ColumnValue(h, column) ==
    CASE column = "latency"     -> h.latency
      [] column = "status_code" -> h.status_code
      [] column = "error_type"  -> TextRank(h.error_type)
      [] OTHER                  -> h.timestamp

(* a before b is allowed by ORDER BY <column> ASC | DESC *)
InOrder(a, b, column, desc) ==
    IF desc THEN ColumnValue(a, column) >= ColumnValue(b, column)
            ELSE ColumnValue(a, column) <= ColumnValue(b, column)

(* ORDER BY: the rows of S in the order of the column; rows that tie come  *)
(* in any order, so this is the set of sequences the engine may produce.   *)
RECURSIVE OrderBy(_, _, _)
OrderBy(S, column, desc) ==
    IF S = {} THEN {<<>>}
    ELSE UNION { { <<m>> \o t : t \in OrderBy(S \ {m}, column, desc) } :
                 m \in {x \in S : \A y \in S : InOrder(x, y, column, desc)} }

(* LIMIT appended for every limit, 0 included *)
Limit_always(rows, limit) == SubSeq(rows, 1, Min(limit, Len(rows)))

(* LIMIT ?, appended to the query only when limit > 0 *)
Limit(rows, limit) ==
    IF limit > 0 THEN SubSeq(rows, 1, Min(limit, Len(rows))) ELSE rows

(* the loop left at the first row whose data does not decode *)
RECURSIVE ScanRows_stopsAtFirst(_)
ScanRows_stopsAtFirst(rows) ==
    IF rows = <<>> THEN <<>>
    ELSE LET u == Unmarshal(Head(rows).data)
         IN IF u.ok THEN <<u.data>> \o ScanRows_stopsAtFirst(Tail(rows))
            ELSE <<>>

(* for rows.Next(): a row whose data does not decode is logged and skipped *)
RECURSIVE ScanRows(_)
ScanRows(rows) ==
    IF rows = <<>> THEN <<>>
    ELSE LET u == Unmarshal(Head(rows).data)
         IN IF u.ok THEN <<u.data>> \o ScanRows(Tail(rows))
            ELSE ScanRows(Tail(rows))

(* the window with its older edge included *)
InWindow_inclusive(h, clientID, duration) ==
    h.client_id = clientID /\ h.timestamp >= now - duration

(* WHERE client_id = ? AND timestamp > ?  with time.Now().Add(-duration) *)
InWindow(h, clientID, duration) ==
    h.client_id = clientID /\ h.timestamp > now - duration

(* getClientHistory(clientID, duration) *)
GetClientHistory(clientID, duration) ==
    /\ ~Answering
    /\ \E rows \in OrderBy({h \in client_history : InWindow(h, clientID, duration)},
                           "timestamp", FALSE) :
          last' = [op |-> "getClientHistory", clientID |-> clientID,
                   duration |-> duration, out |-> ScanRows(rows)]
    /\ UNCHANGED <<schema, sweeper, now, tickPending, clients, client_history, nextId,
                   calls, started, ingested>>

(* the latency bounds taken as exclusive *)
FilterWhere_exclusive(h, o) ==
    /\ InWindow(h, o.ClientID, o.Duration)
    /\ (o.StatusFilter = "success" => h.success)
    /\ (o.StatusFilter = "error" => ~h.success)
    /\ (o.MinLatency > 0 => h.latency > o.MinLatency)
    /\ (o.MaxLatency > 0 => h.latency < o.MaxLatency)

(* the WHERE clause getFilteredClientHistory builds from the options *)
FilterWhere(h, o) ==
    /\ InWindow(h, o.ClientID, o.Duration)
    /\ (o.StatusFilter = "success" => h.success)
    /\ (o.StatusFilter = "error" => ~h.success)
    /\ (o.MinLatency > 0 => h.latency >= o.MinLatency)
    /\ (o.MaxLatency > 0 => h.latency <= o.MaxLatency)

(* the switch on options.SortBy *)
OrderColumn(sortBy) ==
    CASE sortBy = "latency"     -> "latency"
      [] sortBy = "status_code" -> "status_code"
      [] sortBy = "error_type"  -> "error_type"
      [] OTHER                  -> "timestamp"

(* the sort order compared without regard to case *)
OrderDesc_anyCase(sortOrder) == sortOrder \in {"desc", "DESC"}

(* DESC is appended only for options.SortOrder == "desc" *)
OrderDesc(sortOrder) == sortOrder = "desc"

(* getFilteredClientHistory(options) *)
GetFilteredClientHistory(o) ==
    /\ ~Answering
    /\ \E rows \in OrderBy({h \in client_history : FilterWhere(h, o)},
                           OrderColumn(o.SortBy), OrderDesc(o.SortOrder)) :
          last' = [op |-> "getFilteredClientHistory", options |-> o,
                   out |-> ScanRows(Limit(rows, o.Limit))]
    /\ UNCHANGED <<schema, sweeper, now, tickPending, clients, client_history, nextId,
                   calls, started, ingested>>

(* a latency at the threshold counted as an anomaly *)
AnomalyWhere_atThreshold(h, clientID, thresholdMs, duration) ==
    /\ h.client_id = clientID
    /\ (~h.success \/ h.latency >= thresholdMs)
    /\ h.timestamp > now - duration

(* WHERE client_id = ? AND (success = 0 OR latency > ?) AND timestamp > ? *)
AnomalyWhere(h, clientID, thresholdMs, duration) ==
    /\ h.client_id = clientID
    /\ (~h.success \/ h.latency > thresholdMs)
    /\ h.timestamp > now - duration

(* getAnomalies(clientID, thresholdMs, duration, limit) *)
GetAnomalies(clientID, thresholdMs, duration, limit) ==
    /\ ~Answering
    /\ \E rows \in OrderBy({h \in client_history :
                               AnomalyWhere(h, clientID, thresholdMs, duration)},
                           "timestamp", TRUE) :
          last' = [op |-> "getAnomalies", clientID |-> clientID,
                   thresholdMs |-> thresholdMs, duration |-> duration,
                   limit |-> limit, out |-> ScanRows(Limit(rows, limit))]
    /\ UNCHANGED <<schema, sweeper, now, tickPending, clients, client_history, nextId,
                   calls, started, ingested>>

(* ---- inputs of the queries ---------------------------------------------- *)
Durations == {1, 86401, 86402}
Limits == {0, 2}
Thresholds == {500, 1000}

Opt(c, d, st, mn, mx, sb, so, l) ==
    [ClientID |-> c, Duration |-> d, StatusFilter |-> st, MinLatency |-> mn,
     MaxLatency |-> mx, SortBy |-> sb, SortOrder |-> so, Limit |-> l]

(* every filter over both windows in the order of the timestamp, and     *)
(* every order and limit over the unfiltered window of one client          *)
FilterOptions ==
    { Opt(c, d, st, mn, mx, "timestamp", "asc", 0) :
        c \in ClientIDs, d \in {1, 86402}, st \in {"all", "success", "error"},
        mn \in {0, 100}, mx \in {0, 500} }
    \cup
    { Opt("a", 86402, "all", 0, 0, sb, so, l) :
        sb \in {"timestamp", "latency", "status_code", "error_type", "name", ""},
        so \in {"asc", "desc", "DESC"}, l \in Limits }
    \cup
    { Opt("a", 86402, "error", 0, 1000, "latency", "desc", l) : l \in Limits }

(* ---- float64 ------------------------------------------------------------ *)
(* A positive float64 is the exponent of its leading bit and its 53        *)
(* significand bits, held as three limbs of 17, 18 and 18 bits, most       *)
(* significant first.  Results are rounded to nearest, ties to even.       *)
Limb == 2^18
Lead == 2^16

Zero == [exp |-> 0, mant |-> <<0, 0, 0>>]

(* n / d scaled by a power of two into [1, 2) *)
RECURSIVE Normalise(_, _, _)
Normalise(n, d, e) ==
    IF n < d THEN Normalise(2 * n, d, e - 1)
    ELSE IF n >= 2 * d THEN Normalise(n, 2 * d, e + 1)
    ELSE [num |-> n, den |-> d, exp |-> e]

(* the float64 next above f *)
Succ(f) ==
    LET h == f.mant[1]
        m == f.mant[2]
        l == f.mant[3]
    IN IF l + 1 < Limb THEN [exp |-> f.exp, mant |-> <<h, m, l + 1>>]
       ELSE IF m + 1 < Limb THEN [exp |-> f.exp, mant |-> <<h, m + 1, 0>>]
       ELSE IF h + 1 < 2 * Lead THEN [exp |-> f.exp, mant |-> <<h + 1, 0, 0>>]
       ELSE [exp |-> f.exp + 1, mant |-> <<Lead, 0, 0>>]

(* f cut to 53 bits, with the first bit cut off (guard) and whether any    *)
(* later bit was set (sticky), rounded                                     *)
RoundNearestEven(f, guard, sticky) ==
    IF guard /\ (sticky \/ f.mant[3] % 2 = 1) THEN Succ(f) ELSE f

(* float64(n) / float64(d) for integers n >= 0 and d > 0 *)
FloatDiv(n, d) ==
    IF n = 0 THEN Zero
    ELSE LET s == Normalise(n, d, 0)
             h == (s.num * Lead) \div s.den
             r1 == (s.num * Lead) % s.den
             m == (r1 * Limb) \div s.den
             r2 == (r1 * Limb) % s.den
             l == (r2 * Limb) \div s.den
             r3 == (r2 * Limb) % s.den
         IN RoundNearestEven([exp |-> s.exp, mant |-> <<h, m, l>>],
                             2 * r3 >= s.den, (2 * r3) % s.den # 0)

(* f * float64(k) for an integer k > 0 *)
FloatMul(f, k) ==
    IF f = Zero THEN Zero
    ELSE LET pl == f.mant[3] * k
             pm == f.mant[2] * k + pl \div Limb
             ph == f.mant[1] * k + pm \div Limb
             dl == pl % Limb
             dm == pm % Limb
             s == CHOOSE i \in 0..12 : Lead * 2^i <= ph /\ ph < Lead * 2^(i + 1)
             h == ph \div 2^s
             m == (ph % 2^s) * 2^(18 - s) + dm \div 2^s
             l == (dm % 2^s) * 2^(18 - s) + dl \div 2^s
             cut == dl % 2^s
         IN RoundNearestEven([exp |-> f.exp + s, mant |-> <<h, m, l>>],
                             s > 0 /\ cut \div 2^(s - 1) = 1,
                             s > 0 /\ cut % 2^(s - 1) # 0)

(* ---- status view -------------------------------------------------------- *)
DaySecs    == 86400      \* datetime('now', '-24 hours')
OnlineSecs == 60         \* 60*time.Second
ZeroTime   == -1         \* time.Time{}: before every instant of the clock

(* the clock around the online threshold and around the day of the rate *)
StatusInstants == {0, 1, 60, 86400}

(* a success and two different failures of one client, a success of another *)
StatusReports ==
    { Rep("a", "u1", 100,  200, FALSE, ""),
      Rep("a", "u2", 1200, 500, TRUE,  "timeout"),
      Rep("a", "u1", 80,   503, TRUE,  "dns"),
      Rep("b", "u2", 500,  200, FALSE, "") }

(* last holds the answer of one of the status reads *)
Reporting == last.op \in {"calculateSuccessRate", "getLastError",
                          "getClientStatuses"}

(* the count taken over the entries of every client *)
RateWhere_anyClient(h, clientID) == h.timestamp > now - DaySecs

(* WHERE client_id = ? AND timestamp > datetime('now', '-24 hours') *)
RateWhere(h, clientID) ==
    h.client_id = clientID /\ h.timestamp > now - DaySecs

(* what calculateSuccessRate returns when the QueryRow succeeds: with no    *)
(* row counted SUM is NULL, the Scan fails and 0.0 is returned as for       *)
(* total == 0                                                               *)
SuccessRate(clientID) ==
    LET rows == {h \in client_history : RateWhere(h, clientID)}
        total == Cardinality(rows)
        success == Cardinality({h \in rows : h.success})
    IN IF total = 0 THEN Zero
       ELSE FloatMul(FloatDiv(success, total), 100)

(* calculateSuccessRate(clientID) *)
CalculateSuccessRate(clientID) ==
    /\ ~Reporting
    /\ last' = [op |-> "calculateSuccessRate", clientID |-> clientID,
                err |-> FALSE, out |-> SuccessRate(clientID)]
    /\ UNCHANGED <<schema, sweeper, now, tickPending, clients, client_history,
                   nextId, calls, started, ingested>>

(* calculateSuccessRate(clientID), the QueryRow failing: err != nil *)
CalculateSuccessRateFail(clientID) ==
    /\ ~Reporting
    /\ last' = [op |-> "calculateSuccessRate", clientID |-> clientID,
                err |-> TRUE, out |-> Zero]
    /\ UNCHANGED <<schema, sweeper, now, tickPending, clients, client_history,
                   nextId, calls, started, ingested>>

(* return "", time.Time{} *)
NoError == [error_type |-> "", timestamp |-> ZeroTime]

(* the failures of every client taken *)
LastErrorWhere_anyClient(h, clientID) == ~h.success

(* WHERE client_id = ? AND success = 0 *)
LastErrorWhere(h, clientID) == h.client_id = clientID /\ ~h.success

(* what getLastError can return when the QueryRow succeeds: the first row   *)
(* of ORDER BY timestamp DESC LIMIT 1, or the sentinel on sql.ErrNoRows     *)
LastErrors(clientID) ==
    LET S == {h \in client_history : LastErrorWhere(h, clientID)}
    IN IF S = {} THEN {NoError}
       ELSE { [error_type |-> Limit(rows, 1)[1].error_type,
               timestamp |-> Limit(rows, 1)[1].timestamp] :
              rows \in OrderBy(S, "timestamp", TRUE) }

(* getLastError(clientID) *)
GetLastError(clientID) ==
    /\ ~Reporting
    /\ \E e \in LastErrors(clientID) :
          last' = [op |-> "getLastError", clientID |-> clientID,
                   err |-> FALSE, out |-> e]
    /\ UNCHANGED <<schema, sweeper, now, tickPending, clients, client_history,
                   nextId, calls, started, ingested>>

(* getLastError(clientID), the QueryRow failing for another reason *)
GetLastErrorFail(clientID) ==
    /\ ~Reporting
    /\ last' = [op |-> "getLastError", clientID |-> clientID,
                err |-> TRUE, out |-> NoError]
    /\ UNCHANGED <<schema, sweeper, now, tickPending, clients, client_history,
                   nextId, calls, started, ingested>>

(* online up to and including the threshold *)
IsOnline_atThreshold(t, lastSeen) == t - lastSeen <= OnlineSecs

(* now.Sub(lastSeen) < 60*time.Second *)
IsOnline(t, lastSeen) == t - lastSeen < OnlineSecs

(* var lastData MonitoringData; json.Unmarshal(..., &lastData) with the    *)
(* error dropped: what does not decode leaves the zero value               *)
LastData(lastDataStr) ==
    LET u == Unmarshal(lastDataStr)
    IN IF u.ok THEN u.data ELSE Rep("", "", 0, 0, FALSE, "")

(* the snapshot left undecoded: the latest values stay zero *)
ClientStatus_noSnapshot(c, successRate, lastError) ==
    [ID |-> c.id, Name |-> c.name, TargetURL |-> c.target_url,
     LastSeen |-> c.last_seen, IsOnline |-> IsOnline(now, c.last_seen),
     LastLatency |-> 0,
     LastStatusCode |-> 0,
     SuccessRate |-> successRate,
     LastError |-> lastError.error_type,
     LastErrorTime |-> lastError.timestamp]

(* the ClientStatus built in the loop of getClientStatuses *)
ClientStatus(c, successRate, lastError) ==
    [ID |-> c.id, Name |-> c.name, TargetURL |-> c.target_url,
     LastSeen |-> c.last_seen, IsOnline |-> IsOnline(now, c.last_seen),
     LastLatency |-> LastData(c.last_data).total_response_ms,
     LastStatusCode |-> LastData(c.last_data).status_code,
     SuccessRate |-> successRate,
     LastError |-> lastError.error_type,
     LastErrorTime |-> lastError.timestamp]

(* ORDER BY last_seen DESC over clients, rows that tie in any order *)
RECURSIVE OrderByLastSeen(_)
OrderByLastSeen(S) ==
    IF S = {} THEN {<<>>}
    ELSE UNION { { <<m>> \o t : t \in OrderByLastSeen(S \ {m}) } :
                 m \in {x \in S : \A y \in S : x.last_seen >= y.last_seen} }

(* getClientStatuses(): for each row the two helpers are called; rateFailed *)
(* and errorFailed are the clients for which the helper's query failed      *)
GetClientStatuses ==
    /\ ~Reporting
    /\ \E rows \in OrderByLastSeen(clients),
          rateFailed \in SUBSET {c.id : c \in clients},
          errorFailed \in SUBSET {c.id : c \in clients},
          found \in [ClientIDs -> UNION {LastErrors(c) : c \in ClientIDs}] :
          /\ \A c \in ClientIDs : found[c] \in LastErrors(c)
          /\ last' = [op |-> "getClientStatuses",
                      rateFailed |-> rateFailed, errorFailed |-> errorFailed,
                      out |-> [i \in 1..Len(rows) |->
                                 ClientStatus(rows[i],
                                     IF rows[i].id \in rateFailed THEN Zero
                                     ELSE SuccessRate(rows[i].id),
                                     IF rows[i].id \in errorFailed THEN NoError
                                     ELSE found[rows[i].id])]]
    /\ UNCHANGED <<schema, sweeper, now, tickPending, clients, client_history,
                   nextId, calls, started, ingested>>

(* ---- specifications ----------------------------------------------------- *)
(* concurrent ingest, the sweeper and the clock *)
Next ==
    \/ \E t \in Instants : Tick(t)
    \/ \E p \in Slots, r \in IngestReports : HandleMonitoringData(p, r)
    \/ \E p \in Slots : Upsert(p)
    \/ \E p \in Slots : UpsertFail(p)
    \/ \E p \in Slots : Insert(p)
    \/ \E p \in Slots : InsertFail(p)
    \/ Cleanup
    \/ CleanupFail

Spec == Init /\ [][Next]_vars

(* the queries over the stores that calls made one after the other leave *)
NextQuery ==
    \/ \E t \in QueryInstants : Tick(t)
    \/ \E r \in Reports : StoreMonitoringData(r)
    \/ \E c \in ClientIDs, d \in Durations : GetClientHistory(c, d)
    \/ \E o \in FilterOptions : GetFilteredClientHistory(o)
    \/ \E c \in ClientIDs, th \in Thresholds, d \in {86401, 86402}, l \in Limits :
          GetAnomalies(c, th, d, l)

SpecQuery == Init /\ [][NextQuery]_vars

(* the status reads over the stores that calls made one after the other leave *)
NextStatus ==
    \/ \E t \in StatusInstants : Tick(t)
    \/ \E r \in StatusReports : StoreMonitoringData(r)
    \/ \E c \in ClientIDs : CalculateSuccessRate(c)
    \/ \E c \in ClientIDs : CalculateSuccessRateFail(c)
    \/ \E c \in ClientIDs : GetLastError(c)
    \/ \E c \in ClientIDs : GetLastErrorFail(c)
    \/ GetClientStatuses

SpecStatus == Init /\ [][NextStatus]_vars

(* the payload of a row written when MonitoringData had another shape: it  *)
(* does not decode into the struct                                         *)
LegacyData == <<"a", "u1", "700ms">>

(* rows the database file holds when it is opened *)
LegacyRows ==
    { [id |-> 1, client_id |-> "a", timestamp |-> 0, success |-> FALSE,
       latency |-> 700, status_code |-> 500, error_type |-> "timeout",
       data |-> LegacyData],
      [id |-> 2, client_id |-> "a", timestamp |-> 0, success |-> TRUE,
       latency |-> 100, status_code |-> 200, error_type |-> "",
       data |-> LegacyData] }

(* initDatabase on a file that exists: the schema is there and the tables  *)
(* hold what earlier runs left, the legacy rows counted as stored reports  *)
InitLegacy ==
    /\ now = 0
    /\ tickPending = FALSE
    /\ \E L \in SUBSET LegacyRows :
          /\ L # {}
          /\ client_history = L
          /\ started = Cardinality(L)
    /\ clients = {[id |-> "a", name |-> "a", target_url |-> "u1",
                   last_seen |-> 0, last_data |-> LegacyData]}
    /\ nextId = 3
    /\ calls = [p \in Slots |-> IdleCall]
    /\ ingested = [c \in ClientIDs |-> NoReport]
    /\ last = NoOp
    /\ schema = SchemaObjects
    /\ sweeper = [pc |-> "waiting", failed |-> FALSE]

(* orders and limits over the whole window of one client *)
DecodeOptions ==
    { Opt("a", 86402, "all", 0, 0, sb, so, l) :
        sb \in {"timestamp", "latency"}, so \in {"asc", "desc"}, l \in Limits }

(* the queries over a store that holds rows whose payload does not decode *)
NextDecode ==
    \/ \E t \in QueryInstants : Tick(t)
    \/ \E r \in IngestReports : StoreMonitoringData(r)
    \/ \E c \in ClientIDs : GetClientHistory(c, 86402)
    \/ \E o \in DecodeOptions : GetFilteredClientHistory(o)
    \/ \E c \in ClientIDs, l \in Limits : GetAnomalies(c, 500, 86402, l)

SpecDecode == InitLegacy /\ [][NextDecode]_vars

(* ---- schema ------------------------------------------------------------- *)
(* CREATE without IF NOT EXISTS: an object that exists is an error *)
CreateIfNotExists_plain(objs, name) ==
    IF \E i \in 1..Len(objs) : objs[i] = name
    THEN [objs |-> objs, err |-> TRUE]
    ELSE [objs |-> Append(objs, name), err |-> FALSE]

(* CREATE TABLE | INDEX IF NOT EXISTS name: nothing is done when the name  *)
(* exists                                                                  *)
CreateIfNotExists(objs, name) ==
    IF \E i \in 1..Len(objs) : objs[i] = name
    THEN [objs |-> objs, err |-> FALSE]
    ELSE [objs |-> Append(objs, name), err |-> FALSE]

(* db.Exec(schema): the statements one after the other, up to the first    *)
(* that fails                                                              *)
RECURSIVE ExecSchema(_, _)
ExecSchema(objs, stmts) ==
    IF stmts = <<>> THEN [objs |-> objs, err |-> FALSE]
    ELSE LET r == CreateIfNotExists(objs, Head(stmts))
         IN IF r.err THEN r ELSE ExecSchema(r.objs, Tail(stmts))

(* initDatabase(dataSourceName) on the store *)
InitDatabase ==
    /\ LET r == ExecSchema(schema, SchemaObjects)
       IN /\ schema' = r.objs
          /\ last' = [op |-> "initDatabase", err |-> r.err]
    /\ UNCHANGED <<sweeper, now, tickPending, clients, client_history, nextId,
                   calls, started, ingested>>

(* a data source that does not exist yet: sql.Open creates an empty file *)
InitFresh ==
    /\ now = 0
    /\ tickPending = FALSE
    /\ clients = {}
    /\ client_history = {}
    /\ nextId = 1
    /\ calls = [p \in Slots |-> IdleCall]
    /\ started = 0
    /\ ingested = [c \in ClientIDs |-> NoReport]
    /\ last = NoOp
    /\ schema = <<>>
    /\ sweeper = [pc |-> "waiting", failed |-> FALSE]

(* initDatabase at every start of the process on the same file, reports    *)
(* stored once the tables are there                                        *)
NextSchema ==
    \/ InitDatabase
    \/ \E t \in QueryInstants : schema = SchemaObjects /\ Tick(t)
    \/ \E r \in Reports : schema = SchemaObjects /\ StoreMonitoringData(r)

SpecSchema == InitFresh /\ [][NextSchema]_vars

(* the hours at which the ticker of cleanupRoutine fires, and a second *)
(* before the first                                                    *)
SweepInstants == {0, 3599, 3600, 7200}

(* the sweeper over several ticks, with reports stored in between; a sweep *)
(* that can run is run in the end: db.Exec returns and the goroutine is    *)
(* scheduled again                                                         *)
NextSweeper ==
    \/ \E t \in SweepInstants : Tick(t)
    \/ \E r \in IngestReports : StoreMonitoringData(r)
    \/ Cleanup
    \/ CleanupFail

SpecSweeper ==
    Init /\ [][NextSweeper]_vars /\ WF_vars(Cleanup \/ CleanupFail)

(* ---- crash -------------------------------------------------------------- *)
(* the calls of storeMonitoringData that have not returned *)
InFlight == {p \in Slots : calls[p].pc \in {"upsert", "insert"}}

(* The process dies and is started again over the same database file: the  *)
(* goroutines in flight are gone, every Exec that returned is in the file  *)
(* (each is a transaction of its own), NewServer runs initDatabase and     *)
(* starts cleanupRoutine with a new ticker.  last keeps the reports of the *)
(* calls that were between their two writes.                               *)
Crash ==
    /\ InFlight # {}
    /\ calls' = [p \in Slots |-> IF p \in InFlight THEN IdleCall ELSE calls[p]]
    /\ tickPending' = FALSE
    /\ sweeper' = [pc |-> "waiting", failed |-> FALSE]
    /\ schema' = ExecSchema(schema, SchemaObjects).objs
    /\ last' = [op |-> "crash",
                lost |-> {calls[p].data : p \in {q \in InFlight :
                                                   calls[q].pc = "insert"}}]
    /\ UNCHANGED <<now, clients, client_history, nextId, started, ingested>>

(* the concurrent ingest with the process dying in between *)
NextCrash ==
    \/ \E t \in Instants : Tick(t)
    \/ \E p \in Slots, r \in IngestReports : HandleMonitoringData(p, r)
    \/ \E p \in Slots : Upsert(p)
    \/ \E p \in Slots : UpsertFail(p)
    \/ \E p \in Slots : Insert(p)
    \/ \E p \in Slots : InsertFail(p)
    \/ Crash

SpecCrash == Init /\ [][NextCrash]_vars

(* ---- the clock read before the statement runs --------------------------- *)
(* time.Now() is an argument of db.Exec: it is evaluated in the goroutine  *)
(* before Exec is called, and the statement is applied to the store when   *)
(* the database gets to it.  Other goroutines and the clock can get in     *)
(* between.  Upsert and Insert above are the two together in one step;     *)
(* here they are apart.                                                    *)

(* the clock around the start and a second past seven days later *)
RaceInstants == {0, 1, 604801}

(* the arguments of the first Exec evaluated *)
UpsertArgs(p) ==
    /\ calls[p].pc = "upsert"
    /\ calls' = [calls EXCEPT ![p] =
                    [pc |-> "upsertExec", data |-> calls[p].data,
                     jsonData |-> calls[p].jsonData, acked |-> calls[p].acked,
                     t |-> now]]
    /\ last' = NoOp
    /\ UNCHANGED <<schema, sweeper, now, tickPending, clients, client_history,
                   nextId, started, ingested>>

(* the first Exec applied and returning nil *)
UpsertExec(p) ==
    /\ calls[p].pc = "upsertExec"
    /\ LET c == calls[p]
           row == ClientRow(c.data, c.jsonData, c.t)
       IN /\ clients' = InsertOrReplace(clients, row)
          /\ calls' = [calls EXCEPT ![p] =
                          [pc |-> "insert", data |-> c.data,
                           jsonData |-> c.jsonData, acked |-> c.acked,
                           last_seen |-> row.last_seen]]
          /\ ingested' = [ingested EXCEPT ![c.data.client_id] = c.data]
    /\ last' = NoOp
    /\ UNCHANGED <<schema, sweeper, now, tickPending, client_history, nextId,
                   started>>

(* the arguments of the second Exec evaluated *)
InsertArgs(p) ==
    /\ calls[p].pc = "insert"
    /\ calls' = [calls EXCEPT ![p] =
                    [pc |-> "insertExec", data |-> calls[p].data,
                     jsonData |-> calls[p].jsonData, acked |-> calls[p].acked,
                     last_seen |-> calls[p].last_seen, t |-> now]]
    /\ last' = NoOp
    /\ UNCHANGED <<schema, sweeper, now, tickPending, clients, client_history,
                   nextId, started, ingested>>

(* the second Exec applied and returning nil *)
InsertExec(p) ==
    /\ calls[p].pc = "insertExec"
    /\ LET c == calls[p]
           row == HistoryRow(nextId, c.data, c.jsonData, c.t)
       IN /\ client_history' = client_history \cup {row}
          /\ calls' = [calls EXCEPT ![p] =
                          [pc |-> "done", data |-> c.data, err |-> FALSE,
                           acked |-> c.acked,
                           upserted |-> TRUE, appended |-> TRUE,
                           last_seen |-> c.last_seen,
                           hist_id |-> nextId, hist_timestamp |-> row.timestamp]]
    /\ nextId' = nextId + 1
    /\ last' = NoOp
    /\ UNCHANGED <<schema, sweeper, now, tickPending, clients, started, ingested>>

(* the concurrent ingest with the clock read apart from the statements,    *)
(* the failing Execs and the sweeper                                       *)
NextRace ==
    \/ \E t \in RaceInstants : Tick(t)
    \/ \E p \in Slots, r \in IngestReports : HandleMonitoringData(p, r)
    \/ \E p \in Slots : UpsertArgs(p)
    \/ \E p \in Slots : UpsertExec(p)
    \/ \E p \in Slots : UpsertFail(p)
    \/ \E p \in Slots : InsertArgs(p)
    \/ \E p \in Slots : InsertExec(p)
    \/ \E p \in Slots : InsertFail(p)
    \/ Cleanup

SpecRace == Init /\ [][NextRace]_vars

(* ======================================================================== *)
(* Properties                                                               *)
(* ======================================================================== *)

(* a call of storeMonitoringData that returned nil: both writes were made *)
Completed(p) == calls[p].pc = "done" /\ calls[p].appended

(* the timing, response and error fields of two reports agree *)
SameFields(r1, r2) ==
    /\ r1.total_response_ms = r2.total_response_ms
    /\ r1.status_code = r2.status_code
    /\ r1.has_error = r2.has_error
    /\ r1.error_type = r2.error_type

(* C1: for every call that completed both writes, the last_seen its upsert *)
(* wrote equals the timestamp of the History Entry it appended.            *)
C1_SameTimestamp ==
    \A p \in Slots :
        Completed(p) => calls[p].hist_timestamp = calls[p].last_seen

(* C1 amended: for every call that completed both writes, the timestamp of *)
(* the History Entry it appended is not earlier than the last_seen its     *)
(* upsert wrote: each write carries the clock as read when it is issued,   *)
(* the append after the upsert.                                            *)
C1_HistoryNotBeforeLastSeen ==
    \A p \in Slots :
        Completed(p) =>
            /\ calls[p].hist_timestamp >= calls[p].last_seen
            /\ \A h \in client_history :
                  h.id = calls[p].hist_id => h.timestamp >= calls[p].last_seen

(* a call whose two writes read different seconds, its entry still stored *)
C1_Witness ==
    \E p \in Slots :
        /\ Completed(p)
        /\ calls[p].hist_timestamp > calls[p].last_seen
        /\ \E h \in client_history : h.id = calls[p].hist_id

(* C2: in every state there is at most one Client row per identifier, and  *)
(* that row holds the target URL and the serialized snapshot of the report *)
(* whose upsert was the last to be applied for the identifier; there is no *)
(* row for an identifier no upsert was applied for.                        *)
C2_OneRowLatestReport ==
    /\ \A r1 \in clients, r2 \in clients : r1.id = r2.id => r1 = r2
    /\ \A c \in ClientIDs :
          IF ingested[c] = NoReport
          THEN \A r \in clients : r.id # c
          ELSE \E r \in clients :
                  /\ r.id = c
                  /\ r.target_url = ingested[c].target_url
                  /\ r.last_data = <<c, ingested[c].target_url,
                                     ingested[c].total_response_ms,
                                     ingested[c].status_code,
                                     ingested[c].has_error,
                                     ingested[c].error_type>>

(* two calls in flight together for one client, with different reports,    *)
(* both past their upsert                                                  *)
C2_Witness ==
    \E p \in Slots, q \in Slots :
        /\ p # q
        /\ calls[p].pc = "insert" /\ calls[q].pc = "insert"
        /\ calls[p].data.client_id = calls[q].data.client_id
        /\ calls[p].data # calls[q].data
        /\ ingested[calls[p].data.client_id] = calls[q].data

(* C3: in every state every History Entry's client identifier is the       *)
(* identifier of an existing Client row.                                   *)
C3_HistoryResolves ==
    \A h \in client_history : \E c \in clients : c.id = h.client_id

(* a sweep has just run, entries remain and a call is between its writes *)
C3_Witness ==
    /\ last.op = "cleanup"
    /\ client_history # {}
    /\ \E p \in Slots : calls[p].pc = "insert"

(* C4: when getClientHistory(r.clientID, D) answers after a call stored r, *)
(* the call's entry is still stored and D reaches back past its timestamp, *)
(* the answer holds a report whose timing, response and error fields are   *)
(* those of r.                                                             *)
C4_StoredThenReturned ==
    last.op = "getClientHistory" =>
        \A p \in Slots :
            ( /\ Completed(p)
              /\ calls[p].data.client_id = last.clientID
              /\ \E h \in client_history : h.id = calls[p].hist_id
              /\ calls[p].hist_timestamp > now - last.duration )
            => \E i \in 1..Len(last.out) : SameFields(last.out[i], calls[p].data)

(* the answer covers the entry of the last completed call and one more *)
C4_Witness ==
    /\ last.op = "getClientHistory"
    /\ Len(last.out) >= 2
    /\ \E p \in Slots :
          /\ Completed(p)
          /\ calls[p].data.client_id = last.clientID
          /\ \E h \in client_history : h.id = calls[p].hist_id
          /\ calls[p].hist_timestamp > now - last.duration

(* C5: a successful sweep leaves no History Entry older than 7 days,       *)
(* removes no History Entry newer than 7 days, adds none, and leaves the   *)
(* Client rows as they were.                                               *)
C5_SweepRetention ==
    [][ last'.op = "cleanup" =>
          /\ \A h \in client_history' : ~(now - h.timestamp > 604800)
          /\ \A h \in client_history :
                now - h.timestamp < 604800 => h \in client_history'
          /\ client_history' \subseteq client_history
          /\ clients' = clients ]_vars

(* a sweep has just removed an entry and left another *)
C5_Witness ==
    /\ last.op = "cleanup"
    /\ client_history # {}
    /\ Cardinality(client_history) < nextId - 1
    /\ clients # {}

(* ---- the answers of the queries ----------------------------------------- *)
(* report rep is what History Entry h records *)
EntryOf(rep, h) ==
    /\ rep.client_id = h.client_id
    /\ rep.total_response_ms = h.latency
    /\ rep.status_code = h.status_code
    /\ rep.has_error = ~h.success
    /\ h.error_type = (IF rep.has_error THEN rep.error_type ELSE "")

(* the ways to read out as a list of distinct entries of S *)
Listings(out, S) ==
    {f \in [1..Len(out) -> S] :
        /\ \A i \in 1..Len(out), j \in 1..Len(out) : i # j => f[i] # f[j]
        /\ \A i \in 1..Len(out) : EntryOf(out[i], f[i])}

(* the entries of S one after the other, each once *)
Enumerations(S) ==
    {f \in [1..Cardinality(S) -> S] :
        \A i \in 1..Cardinality(S), j \in 1..Cardinality(S) : i # j => f[i] # f[j]}

(* the value of an entry in one of the four columns an order can name *)
ValueIn(h, column) ==
    IF column = "latency" THEN h.latency
    ELSE IF column = "status_code" THEN h.status_code
    ELSE IF column = "error_type" THEN TextRank(h.error_type)
    ELSE h.timestamp

(* f runs in the order of the column, ascending or descending *)
Sorted(f, column, desc) ==
    \A i \in DOMAIN f, j \in DOMAIN f :
        i < j => IF desc THEN ValueIn(f[i], column) >= ValueIn(f[j], column)
                         ELSE ValueIn(f[i], column) <= ValueIn(f[j], column)

(* the entries of a client newer than now - duration *)
Window(clientID, duration) ==
    {h \in client_history :
        h.client_id = clientID /\ now - h.timestamp < duration}

(* the entries getFilteredHistory(o) selects *)
Filtered(o) ==
    {h \in Window(o.ClientID, o.Duration) :
        /\ (o.StatusFilter = "success" => h.success = TRUE)
        /\ (o.StatusFilter = "error" => h.success = FALSE)
        /\ (o.MinLatency > 0 => ~(h.latency < o.MinLatency))
        /\ (o.MaxLatency > 0 => ~(h.latency > o.MaxLatency))}

(* the column and direction the options ask for *)
AskedColumn(o) ==
    IF o.SortBy \in {"timestamp", "latency", "status_code", "error_type"}
    THEN o.SortBy ELSE "timestamp"
AskedDesc(o) == o.SortOrder = "desc"

(* out is the first min(limit, n) entries, all n for limit 0, of some      *)
(* enumeration of S sorted on the column                                   *)
IsPrefixOfSorted(out, S, column, desc, limit) ==
    /\ Len(out) = (IF limit > 0 /\ limit < Cardinality(S)
                   THEN limit ELSE Cardinality(S))
    /\ \E g \in Enumerations(S) :
          /\ Sorted(g, column, desc)
          /\ \A i \in 1..Len(out) : EntryOf(out[i], g[i])

(* C6: getHistory(clientID, duration) returns exactly the History Entries  *)
(* of clientID with a timestamp strictly newer than now - duration, each   *)
(* once, none of another client, in ascending order of timestamp, however  *)
(* many there are.                                                         *)
C6_HistoryExactAscending ==
    last.op = "getClientHistory" =>
        /\ Len(last.out) = Cardinality(Window(last.clientID, last.duration))
        /\ \E f \in Listings(last.out, Window(last.clientID, last.duration)) :
              Sorted(f, "timestamp", FALSE)

(* an answer of two entries of different age, with a third entry of the   *)
(* client, exactly duration old, left out                                  *)
C6_Witness ==
    /\ last.op = "getClientHistory"
    /\ Len(last.out) = 2
    /\ \E f \in Listings(last.out, client_history) :
          f[1].timestamp < f[2].timestamp
    /\ \E h \in client_history :
          h.client_id = last.clientID /\ h.timestamp = now - last.duration

(* C7: getFilteredHistory(options) with limit 0 returns exactly the        *)
(* entries of the client in the window that pass the status filter         *)
(* (success only for "success", failures only for "error") and whose       *)
(* latency is within [minLatency, maxLatency], each bound applying only    *)
(* when > 0.                                                               *)
C7_FilterExact ==
    (last.op = "getFilteredClientHistory" /\ last.options.Limit = 0) =>
        /\ Len(last.out) = Cardinality(Filtered(last.options))
        /\ Listings(last.out, Filtered(last.options)) # {}

(* a filter on success and on 100 <= latency <= 500 that keeps an entry at *)
(* a bound, drops a failure and drops a success outside the bounds         *)
C7_Witness ==
    /\ last.op = "getFilteredClientHistory"
    /\ last.options.Limit = 0
    /\ last.options.StatusFilter = "success"
    /\ last.options.MinLatency = 100 /\ last.options.MaxLatency = 500
    /\ \E i \in 1..Len(last.out) : last.out[i].total_response_ms \in {100, 500}
    /\ \E h \in Window(last.options.ClientID, last.options.Duration) : ~h.success
    /\ \E h \in Window(last.options.ClientID, last.options.Duration) :
          h.success /\ h.latency > 500

(* C8: the result of getFilteredHistory is in the order of the column      *)
(* sortBy names among timestamp, latency, status_code and error_type, of   *)
(* timestamp for any other sortBy, descending iff sortOrder = "desc" and   *)
(* ascending otherwise.                                                    *)
C8_SortOrder ==
    last.op = "getFilteredClientHistory" =>
        \E f \in Listings(last.out, Filtered(last.options)) :
            Sorted(f, AskedColumn(last.options), AskedDesc(last.options))

(* sortBy latency, ascending: two entries come out in the order of their   *)
(* latency, against the order of their timestamps                          *)
C8_Witness ==
    /\ last.op = "getFilteredClientHistory"
    /\ last.options.SortBy = "latency" /\ last.options.SortOrder = "asc"
    /\ Len(last.out) >= 2
    /\ last.out[1].total_response_ms < last.out[2].total_response_ms
    /\ \E f \in Listings(last.out, Filtered(last.options)) :
          f[1].timestamp > f[2].timestamp

(* C9: with limit > 0 the result of getFilteredHistory is the first        *)
(* min(limit, n) elements of the filtered and sorted sequence of the n     *)
(* matching entries; with limit = 0 it is the whole sequence.              *)
C9_LimitAfterSort ==
    last.op = "getFilteredClientHistory" =>
        IsPrefixOfSorted(last.out, Filtered(last.options),
                         AskedColumn(last.options), AskedDesc(last.options),
                         last.options.Limit)

(* limit 2 over three matching entries sorted by latency, descending: the  *)
(* two returned have the greatest latencies and the newest entry is not    *)
(* among them                                                              *)
C9_Witness ==
    /\ last.op = "getFilteredClientHistory"
    /\ last.options.Limit = 2
    /\ last.options.SortBy = "latency" /\ last.options.SortOrder = "desc"
    /\ Cardinality(Filtered(last.options)) = 3
    /\ Len(last.out) = 2
    /\ \E h \in Filtered(last.options) :
          /\ h.latency < last.out[2].total_response_ms
          /\ \A h2 \in Filtered(last.options) : h2.timestamp <= h.timestamp

(* the entries getAnomalies selects *)
Anomalous(clientID, thresholdMs, duration) ==
    {h \in Window(clientID, duration) :
        h.success = FALSE \/ ~(h.latency <= thresholdMs)}

(* C10: getAnomalies(clientID, thresholdMs, duration, limit) returns, for  *)
(* limit 0, every entry of clientID in the window with success = false or  *)
(* latency > thresholdMs and no other, in descending order of timestamp;   *)
(* for limit > 0 the first limit entries of that sequence.                 *)
C10_AnomaliesExactDescending ==
    last.op = "getAnomalies" =>
        IsPrefixOfSorted(last.out,
                         Anomalous(last.clientID, last.thresholdMs, last.duration),
                         "timestamp", TRUE, last.limit)

(* limit 0: a failure and a slow success are returned, newest first, and   *)
(* a success with latency equal to the threshold is left out               *)
C10_Witness ==
    /\ last.op = "getAnomalies"
    /\ last.limit = 0
    /\ Len(last.out) >= 2
    /\ \E i \in 1..Len(last.out) : last.out[i].has_error
    /\ \E h \in Window(last.clientID, last.duration) :
          h.success /\ h.latency = last.thresholdMs
    /\ \E f \in Listings(last.out, client_history) :
          f[1].timestamp > f[2].timestamp

(* the entries of a client not yet 24 hours old *)
DayWindow(clientID) ==
    {h \in client_history : h.client_id = clientID /\ now - h.timestamp < 86400}

Successes(S) == Cardinality({h \in S : h.success})

(* a and b are the same float64 or neighbours *)
WithinOneUlp(a, b) == a = b \/ (a # Zero /\ b # Zero /\ (Succ(a) = b \/ Succ(b) = a))

Failures(clientID) ==
    {h \in client_history : h.client_id = clientID /\ h.success = FALSE}

(* out is the type and the time of an entry of F that none of F is later than *)
IsLatestOf(out, F) ==
    \E h \in F : /\ \A g \in F : g.timestamp <= h.timestamp
                 /\ out.error_type = h.error_type
                 /\ out.timestamp = h.timestamp

IsSentinel(out) == out.error_type = "" /\ out.timestamp = ZeroTime

StatusEntries == {last.out[i] : i \in 1..Len(last.out)}

(* C13: in getClientStatuses a client is online iff now - last_seen is     *)
(* strictly less than 60 seconds: 59 seconds is online, 60 or more is not. *)
C13_OnlineBelowSixty ==
    last.op = "getClientStatuses" =>
        \A e \in StatusEntries :
            \E c \in clients :
                /\ c.id = e.ID
                /\ e.IsOnline <=> (now - c.last_seen < 60)

(* one client last seen 59 seconds ago is online next to one last seen 60  *)
(* seconds ago that is offline                                              *)
C13_Witness ==
    /\ last.op = "getClientStatuses"
    /\ \E e, f \in StatusEntries :
          /\ now - e.LastSeen = 59 /\ e.IsOnline
          /\ now - f.LastSeen = 60 /\ ~f.IsOnline

(* one entry for each row of clients *)
OnePerClient ==
    /\ Len(last.out) = Cardinality(clients)
    /\ {e.ID : e \in StatusEntries} = {c.id : c \in clients}

(* the latest values of e are those of the report last ingested for it *)
ShowsLatestReport(e) ==
    /\ e.LastStatusCode = ingested[e.ID].status_code
    /\ e.LastLatency = ingested[e.ID].total_response_ms

(* the last error of e is that of a latest failing entry, empty with none *)
ShowsLastFailure(e) ==
    LET F == Failures(e.ID)
    IN IF F = {} THEN e.LastError = ""
       ELSE \E h \in F : /\ \A g \in F : g.timestamp <= h.timestamp
                         /\ e.LastError = h.error_type

(* the rate of e is 100 * successes / total over its last 24 hours, to the *)
(* last place of the float64                                                *)
ShowsDayRate(e) ==
    LET W == DayWindow(e.ID)
    IN IF W = {} THEN e.SuccessRate = Zero
       ELSE WithinOneUlp(e.SuccessRate,
                         FloatDiv(100 * Successes(W), Cardinality(W)))

C15_HistoryEntryOfReport ==
    [][ \A h \in client_history' \ client_history :
          LET r == calls'[1].data
          IN /\ h.id = calls'[1].hist_id
             /\ h.client_id = r.client_id
             /\ h.success = ~r.has_error
             /\ h.latency = r.total_response_ms
             /\ h.status_code = r.status_code
             /\ h.error_type = (IF r.has_error THEN r.error_type ELSE "")
             /\ (h.success => h.error_type = "")
             /\ \E c \in clients' : c.id = r.client_id /\ c.last_data = h.data
      ]_vars

(* the entry of a report that carries an error type without hasError: a    *)
(* success with the empty error type and the payload of the snapshot        *)
C15_Witness ==
    /\ calls[1].pc = "done"
    /\ ~calls[1].data.has_error
    /\ calls[1].data.error_type # ""
    /\ \E h \in client_history :
          /\ h.id = calls[1].hist_id
          /\ h.success /\ h.error_type = ""
          /\ \E c \in clients : c.id = h.client_id /\ c.last_data = h.data

(* C16: when the upsert of storeMonitoringData fails the error is returned *)
(* and the call appends no History Entry: the step leaves client_history   *)
(* (and clients) as they were, the call is over, and every entry that is   *)
(* appended comes from a call whose upsert had succeeded.                   *)
C16_UpsertFailureStopsCall ==
    [][ /\ \A p \in Slots :
             (calls[p].pc = "upsert" /\ calls'[p].pc = "done") =>
                 /\ calls'[p].err
                 /\ ~calls'[p].upserted /\ ~calls'[p].appended
                 /\ client_history' = client_history
                 /\ clients' = clients
        /\ (client_history' \ client_history # {}) =>
               \E p \in Slots : calls[p].pc = "insert" /\ calls'[p].pc = "done"
      ]_vars

(* a call ended by a failed upsert, nothing of its client stored, next to  *)
(* the entry another call appended                                          *)
C16_Witness ==
    \E p \in Slots :
        /\ calls[p].pc = "done" /\ calls[p].err /\ ~calls[p].upserted
        /\ \A h \in client_history : h.client_id # calls[p].data.client_id
        /\ \A c \in clients : c.id # calls[p].data.client_id
        /\ client_history # {}

(* C17: for every accepted report the handler has sent the acknowledgment  *)
(* before either write of storeMonitoringData begins, and a write that     *)
(* fails later leaves the acknowledgment as sent: acknowledged does not    *)
(* imply stored.                                                            *)
C17_AckedBeforeStored ==
    \A p \in Slots :
        calls[p].pc \in {"upsert", "insert", "done"} => calls[p].acked

(* an acknowledged report whose upsert failed, nothing of it stored, and   *)
(* another acknowledged report whose first write has not begun              *)
C17_Witness ==
    \E p, q \in Slots :
        /\ calls[p].pc = "done" /\ calls[p].acked
        /\ calls[p].err /\ ~calls[p].upserted /\ ~calls[p].appended
        /\ calls[q].pc = "upsert" /\ calls[q].acked
        /\ clients = {} /\ client_history = {}

(* C18: cleanupRoutine never leaves its loop, whether a sweep fails or     *)
(* not, and every tick of its ticker is followed by a sweep attempt: after *)
(* a failed sweep, which is only logged, the next tick is swept again.     *)
C18_SweeperKeepsSweeping ==
    /\ [](sweeper.pc = "waiting")
    /\ (tickPending ~> ~tickPending)

(* a sweep carried out after an earlier sweep had failed *)
C18_Witness ==
    /\ sweeper.failed
    /\ sweeper.pc = "waiting"
    /\ last.op = "cleanup"
    /\ now = 7200

(* what the query that has answered selects, how it orders and limits *)
Selection ==
    CASE last.op = "getClientHistory" ->
           [S |-> Window(last.clientID, last.duration),
            column |-> "timestamp", desc |-> FALSE, limit |-> 0]
      [] last.op = "getFilteredClientHistory" ->
           [S |-> Filtered(last.options), column |-> AskedColumn(last.options),
            desc |-> AskedDesc(last.options), limit |-> last.options.Limit]
      [] last.op = "getAnomalies" ->
           [S |-> Anomalous(last.clientID, last.thresholdMs, last.duration),
            column |-> "timestamp", desc |-> TRUE, limit |-> last.limit]

(* the payloads of g[1], ..., g[n] that decode, decoded, in that order *)
RECURSIVE Decoded(_, _)
Decoded(g, n) ==
    IF n = 0 THEN <<>>
    ELSE Decoded(g, n - 1) \o
         (IF Unmarshal(g[n].data).ok THEN <<Unmarshal(g[n].data).data>>
          ELSE <<>>)

(* C19: in getClientHistory, getFilteredClientHistory and getAnomalies a   *)
(* selected row whose payload does not decode is skipped and the call      *)
(* still answers: the result is the decoded payloads of the selected rows  *)
(* (those left by the order and the limit) that decode, in the order of    *)
(* the selection.                                                          *)
C19_UndecodableSkipped ==
    Answering =>
        LET q == Selection
            n == IF q.limit > 0 /\ q.limit < Cardinality(q.S)
                 THEN q.limit ELSE Cardinality(q.S)
        IN \E g \in Enumerations(q.S) :
              /\ Sorted(g, q.column, q.desc)
              /\ last.out = Decoded(g, n)

(* three rows selected in the order of latency, the middle one not         *)
(* decodable: the answer is the first and the third                         *)
C19_Witness ==
    /\ last.op = "getFilteredClientHistory"
    /\ last.options.SortBy = "latency" /\ last.options.SortOrder = "asc"
    /\ last.options.Limit = 0
    /\ Cardinality(Filtered(last.options)) = 3
    /\ Len(last.out) = 2
    /\ \E h \in Filtered(last.options) :
          /\ ~Unmarshal(h.data).ok
          /\ last.out[1].total_response_ms < h.latency
          /\ h.latency < last.out[2].total_response_ms

(* every object of the schema text is in the store *)
SchemaPresent ==
    \A i \in 1..Len(SchemaObjects) :
        \E j \in 1..Len(schema) : schema[j] = SchemaObjects[i]

(* C20: initDatabase on a store where it has already run returns no error, *)
(* creates no second table or index, and leaves every Client row and       *)
(* History Entry as it was.                                                *)
C20_InitDatabaseIdempotent ==
    [][ (SchemaPresent /\ last'.op = "initDatabase") =>
            /\ ~last'.err
            /\ schema' = schema
            /\ \A i, j \in 1..Len(schema') : schema'[i] = schema'[j] => i = j
            /\ clients' = clients
            /\ client_history' = client_history
      ]_vars

(* initDatabase has returned on a store that holds rows of two clients *)
C20_Witness ==
    /\ last.op = "initDatabase"
    /\ ~last.err
    /\ schema = SchemaObjects
    /\ Cardinality(clients) = 2
    /\ Cardinality(client_history) = 3

(* the step is the second Exec of call p returning without error *)
Appends(p) ==
    calls[p].pc = "insert" /\ calls'[p].pc = "done" /\ ~calls'[p].err

(* C21: History is append-only: the successful second write of a call adds *)
(* exactly one History Entry, under an id no entry has or had, and leaves  *)
(* the others as they are; an entry is only ever added by such a write; an *)
(* entry that stays keeps all its fields; an entry is only ever removed by *)
(* the sweep.                                                              *)
C21_AppendOnly ==
    [][ /\ \A p \in Slots :
              Appends(p) =>
                 \E row \in client_history' :
                    /\ row \notin client_history
                    /\ row.id = nextId /\ nextId' > nextId
                    /\ \A h \in client_history : h.id < row.id
                    /\ row.client_id = calls[p].data.client_id
                    /\ client_history' = client_history \cup {row}
                    /\ Cardinality(client_history') =
                          Cardinality(client_history) + 1
        /\ (~ \E p \in Slots : Appends(p)) =>
              client_history' \subseteq client_history
        /\ \A h \in client_history, h2 \in client_history' :
              h.id = h2.id => h = h2
        /\ nextId' >= nextId
        /\ \A h \in client_history' : h.id < nextId'
        /\ client_history \subseteq client_history' \/ last'.op = "cleanup"
      ]_vars

(* a second entry of a client has just been appended next to its first *)
C21_Witness ==
    \E p \in Slots, h1 \in client_history, h2 \in client_history :
        /\ Completed(p)
        /\ calls[p].hist_id = nextId - 1
        /\ h2.id = calls[p].hist_id
        /\ h1.id < h2.id
        /\ h1.client_id = h2.client_id
        /\ h1.data # h2.data

(* the step is the second Exec of call p returning its error *)
AppendFails(p) ==
    calls[p].pc = "insert" /\ calls'[p].pc = "done" /\ calls'[p].err

(* the step is the process dying with call p between its two writes *)
DiesBetweenWrites(p) ==
    calls[p].pc = "insert" /\ last'.op = "crash"

(* the calls that are seen not to have appended: in flight or failed *)
NotAppended ==
    {p \in Slots : \/ calls[p].pc \in {"upsert", "insert"}
                   \/ calls[p].pc = "done" /\ ~calls[p].appended}

(* C22: when the second write of a call fails, or the process dies, after  *)
(* the upsert of the call succeeded, the upsert is not taken back and no   *)
(* History Entry is written for the call: both tables stay as they are,    *)
(* the row of the client is there and holds the report of the call unless  *)
(* a later upsert replaced it; the failing call returns the error.  The    *)
(* entries ever appended are no more than the calls that are not seen to   *)
(* have failed or to be in flight.                                         *)
C22_UpsertStaysWithoutEntry ==
    /\ [][ \A p \in Slots :
              (AppendFails(p) \/ DiesBetweenWrites(p)) =>
                 /\ clients' = clients
                 /\ client_history' = client_history
                 /\ nextId' = nextId
                 /\ \E row \in clients' :
                       /\ row.id = calls[p].data.client_id
                       /\ ingested[row.id] = calls[p].data =>
                             /\ row.last_data = Marshal(calls[p].data)
                             /\ row.target_url = calls[p].data.target_url
                 /\ AppendFails(p) =>
                       /\ calls'[p].upserted /\ ~calls'[p].appended
                       /\ calls'[p].data = calls[p].data
                 /\ DiesBetweenWrites(p) => calls[p].data \in last'.lost
         ]_vars
    /\ [](nextId - 1 <= started - Cardinality(NotAppended))

(* one call has failed at its second write and the process has died with   *)
(* another between its writes: each client has its row, with the report of *)
(* its call, and there is no History Entry                                 *)
C22_Witness ==
    /\ last.op = "crash"
    /\ client_history = {}
    /\ \E p \in Slots :
          /\ calls[p].pc = "done" /\ calls[p].err /\ calls[p].upserted
          /\ \E row \in clients :
                row.id = calls[p].data.client_id
                /\ row.last_data = Marshal(calls[p].data)
          /\ \E d \in last.lost :
                /\ d.client_id # calls[p].data.client_id
                /\ \E row \in clients :
                      row.id = d.client_id /\ row.last_data = Marshal(d)

(* no two calls have been in flight together: a goroutine takes the lowest *)
(* slot not running, so every call so far took the first                   *)
Serial == \A p \in Slots \ {1} : calls[p].pc = "idle"

(* the entries of one client are in the order of their timestamps by id *)
IdOrderIsTimeOrder ==
    \A h1 \in client_history, h2 \in client_history :
        (h1.client_id = h2.client_id /\ h1.id < h2.id)
            => h1.timestamp <= h2.timestamp

(* C23: under any interleaving of concurrent calls for one client, of any  *)
(* two of its History Entries the one with the smaller id has a timestamp  *)
(* not later than the other's.                                             *)
C23_IdOrderIsTimeOrder == IdOrderIsTimeOrder

(* C23 amended: of any two History Entries of a client the one with the    *)
(* smaller id has a timestamp not later than the other's as long as no two *)
(* calls were in flight together; and no entry carries a timestamp later   *)
(* than the clock: each is the clock as its call read it before the        *)
(* statement ran.                                                          *)
C23_IdOrderIsTimeOrderWhenSerial ==
    /\ Serial => IdOrderIsTimeOrder
    /\ \A h \in client_history : h.timestamp <= now

(* calls made one after the other have left two entries of one client,     *)
(* the later a second after the earlier                                    *)
C23_Witness ==
    /\ Serial
    /\ \E h1 \in client_history, h2 \in client_history :
          /\ h1.client_id = h2.client_id
          /\ h1.id < h2.id
          /\ h1.timestamp < h2.timestamp

(* no call of storeMonitoringData is in flight *)
Quiet == \A p \in Slots : calls[p].pc \in {"idle", "done"}

(* every call that was started has appended its entry *)
AllSucceeded == nextId - 1 = started

(* every entry ever appended is still stored *)
NothingSwept == Cardinality(client_history) = nextId - 1

(* the entries of the client of a row *)
EntriesOf(row) == {h \in client_history : h.client_id = row.id}

(* C24: whenever no call is in flight, all started calls have succeeded    *)
(* and no sweep has removed an entry, the snapshot of each Client row is   *)
(* the payload of an entry of that client with the greatest timestamp.     *)
C24_SnapshotIsLatestEntry ==
    (Quiet /\ AllSucceeded /\ NothingSwept) =>
        \A row \in clients :
            \E h \in EntriesOf(row) :
                /\ \A h2 \in EntriesOf(row) : h2.timestamp <= h.timestamp
                /\ row.last_data = h.data

(* C24 amended: whenever no call is in flight and all started calls have   *)
(* succeeded, the snapshot of each Client row whose entry no sweep can     *)
(* have removed is the payload of an entry of that client that is not      *)
(* older than the row's last_seen; as long as no two calls were in flight  *)
(* together it is the payload of the client's entry with the greatest id,  *)
(* whose timestamp is the greatest.                                        *)
C24_SnapshotIsAnEntry ==
    (Quiet /\ AllSucceeded) =>
        \A row \in clients :
            (NothingSwept \/ row.last_seen >= now - RetentionSecs) =>
                /\ \E h \in EntriesOf(row) :
                      /\ row.last_data = h.data
                      /\ h.timestamp >= row.last_seen
                /\ Serial =>
                      \E h \in EntriesOf(row) :
                         /\ row.last_data = h.data
                         /\ \A h2 \in EntriesOf(row) :
                               h2.id <= h.id /\ h2.timestamp <= h.timestamp

(* two calls for one client that ran together have both succeeded, and the *)
(* row holds the report of the one whose entry is the older                *)
C24_Witness ==
    /\ Quiet /\ AllSucceeded /\ NothingSwept /\ ~Serial
    /\ \E row \in clients, h \in client_history, h2 \in client_history :
          /\ h.client_id = row.id /\ h2.client_id = row.id
          /\ row.last_data = h.data
          /\ row.last_data # h2.data
          /\ h.timestamp < h2.timestamp

(* no row of clients has, after the step, a last_seen earlier than before *)
LastSeenKept ==
    \A row \in clients, row2 \in clients' :
        row.id = row2.id => row2.last_seen >= row.last_seen

(* C25: across any interleaving of concurrent calls for one identifier,    *)
(* each upsert leaves last_seen greater than or equal to its value in the  *)
(* preceding state.                                                        *)
C25_LastSeenNeverDecreases == [][LastSeenKept]_vars

(* C25 amended: each upsert leaves last_seen greater than or equal to its  *)
(* value in the preceding state as long as no two calls were in flight     *)
(* together; in every case it leaves the clock as its call read it before  *)
(* the statement ran, which is never later than the clock at the upsert,   *)
(* and the row of a client is never removed.                               *)
C25_LastSeenKeptWhenSerial ==
    /\ [][ /\ Serial' => LastSeenKept
           /\ \A row \in clients : \E row2 \in clients' : row2.id = row.id
           /\ \A p \in Slots :
                 (calls[p].pc = "upsertExec" /\ calls'[p].pc = "insert") =>
                    \E row \in clients' :
                       /\ row.id = calls[p].data.client_id
                       /\ row.last_seen = calls[p].t
         ]_vars
    /\ [](\A row \in clients : row.last_seen <= now)

(* a call made after another has returned has moved last_seen of the       *)
(* client forward                                                          *)
C25_Witness ==
    /\ Serial
    /\ \E row \in clients, h \in client_history :
          /\ h.client_id = row.id
          /\ h.timestamp < row.last_seen
          /\ calls[1].pc = "insert"
          /\ calls[1].data.client_id = row.id
          /\ calls[1].last_seen = row.last_seen

====
